---- MODULE Spec2Model ----
(***************************************************************************)
(* Terrain3DStorage (src/src/terrain_storage.cpp and its class             *)
(* declaration src/unnamed/part_000): the region index, the region store   *)
(* and the five dirty-tracked generated resources, together with the part  *)
(* of the RenderingServer the storage talks to (RID allocation, textures,  *)
(* material parameters).                                                   *)
(*                                                                         *)
(* Every public method is one action that runs the whole handler,          *)
(* including the Generated::clear() calls and the _update_regions() pass   *)
(* it ends with.  The handler's effect on the generated resources and on   *)
(* the rendering server is computed by operators over a context record     *)
(*   [generated, material, shader, rs_objects, rs_params, rs_calls, errors]*)
(* threaded through the calls in the order the code makes them.            *)
(*                                                                         *)
(* Indices are 0-based as in the code; a TypedArray is a sequence, so      *)
(* element i of the code is arr[i + 1] here.                               *)
(***************************************************************************)
EXTENDS Integers, Sequences, FiniteSets, TLC

VARIABLES
    region_size,       \* RegionSize region_size
    region_offsets,    \* TypedArray<Vector2i> region_offsets
    height_maps,       \* TypedArray<Image> height_maps
    control_maps,      \* TypedArray<Image> control_maps
    layers,            \* TypedArray<TerrainLayerMaterial3D> layers
    layer_objects,     \* the TerrainLayerMaterial3D objects the refs point to
    generated,         \* the five Generated members, by member name
    material,          \* RID material
    shader,            \* RID shader
    _initialized,      \* bool _initialized
    rs_objects,        \* RenderingServer: live RID -> what was created
    rs_params,         \* RenderingServer: parameters set on the material
    rs_calls,          \* RenderingServer calls made by the last handler
    last_op            \* the last handler run: [op, result, index, errors]

vars == <<region_size, region_offsets, height_maps, control_maps, layers,
          layer_objects, generated, material, shader, _initialized, rs_objects,
          rs_params, rs_calls, last_op>>

-----------------------------------------------------------------------------
(* Bounds of the exploration.                                              *)

\* add_region is explored while each of the three region lists is shorter
\* than MaxRegions.
MaxRegions == 3

\* set_layer appends while the layer list is shorter than MaxLayers.
MaxLayers == 2

\* In the capacity specification add_region is explored while each of the
\* three region lists is shorter than MaxCapRegions, one more than the
\* region map's channel can tell apart.
MaxCapRegions == 256

-----------------------------------------------------------------------------
(* Program constants.                                                      *)

SIZE_1024 == 1024
region_map_size == 16

\* RID(): the invalid handle.
NullRID == 0

\* get_region_index's "not found".
NotFound == -1

\* The largest value an 8-bit image channel stores.
ChannelMax == 255

\* Ref<Image>(): no image.
EmptyPixels == [cell \in {} |-> [r |-> 0, g |-> 0]]

NullImage == [format |-> "null", size |-> 0, pixels |-> EmptyPixels]

GeneratedNames == {"generated_region_map", "generated_height_maps",
                   "generated_control_maps", "generated_albedo_textures",
                   "generated_normal_textures"}

MapType == {"TYPE_HEIGHT", "TYPE_CONTROL", "TYPE_COLOR", "TYPE_MAX"}

\* The sampler uniforms the shader declares for the two texture-array
\* caches.
TextureParams ==
    [generated_albedo_textures |-> "texture_array_albedo",
     generated_normal_textures |-> "texture_array_normal"]

\* The material parameters whose value is a RID.
RIDParams == {"height_maps", "control_maps", "region_map", "noise"}

\* Ref<TerrainLayerMaterial3D>(): the null reference.
NullLayer == 0

\* The methods _bind_methods registers, which is what a Callable can reach.
BoundMethods ==
    {"set_region_size", "get_region_size", "set_max_height", "get_max_height",
     "set_shader_override", "get_shader_override", "set_noise_texture",
     "get_noise_texture", "set_noise_scale", "get_noise_scale",
     "set_noise_height", "get_noise_height", "set_noise_fade", "get_noise_fade",
     "set_layer", "get_layer", "set_layers", "get_layers", "add_region",
     "remove_region", "has_region", "get_region_index", "force_update_maps",
     "get_map", "set_height_maps", "get_height_maps", "set_control_maps",
     "get_control_maps", "set_region_offsets", "get_region_offsets"}

-----------------------------------------------------------------------------
(* Inputs.                                                                 *)

Vector3(x, y, z) == [x |-> x, y |-> y, z |-> z]

\* World positions handed to add_region / remove_region / get_region_index.
\* With region_size 1024 they snap to the offsets (0,0), (0,0), (1,1) and
\* (8,0), which is one column past the last column of the region map.
Positions == {Vector3(0, 0, 0), Vector3(-512, 0, 100), Vector3(1024, 0, 1024),
              Vector3(8192, 0, 0)}

\* Image::create(size, size, false, format) filled with Color(0,0,0,1), as
\* add_region creates its two images: an image is its format, its size and
\* its (constant) content.
NewImage(size, format) == [format |-> format, size |-> size]

\* Lists handed to the bulk setters (the persisted properties of a saved
\* resource, or anything else a caller passes).
OffsetLists == {<< >>, << <<0, 0>> >>, << <<0, 0>>, <<0, 0>> >>}

HeightLists == {<< >>, << NewImage(SIZE_1024, "RH") >>}

ControlLists == {<< >>, << NewImage(SIZE_1024, "RGBA8") >>}

\* A saved terrain of n regions: the first n cells of the region map in row
\* order, as offsets, with a height map and a control map for each.
GridOffsets(n) ==
    [k \in 1..n |-> <<((k - 1) % region_map_size) - region_map_size \div 2,
                      ((k - 1) \div region_map_size) - region_map_size \div 2>>]

GridHeightMaps(n) == [k \in 1..n |-> NewImage(SIZE_1024, "RH")]

GridControlMaps(n) == [k \in 1..n |-> NewImage(SIZE_1024, "RGBA8")]

\* Positions of the capacity specification: the world positions of the
\* first cell of the region map, offset (-8,-8), and of its last two cells,
\* offsets (6,7) and (7,7).
CapPositions ==
    {Vector3(-8192, 0, -8192), Vector3(6144, 0, 7168), Vector3(7168, 0, 7168)}

\* The TerrainLayerMaterial3D objects that exist, and the textures a caller
\* gives them.
LayerIds == {1, 2}

Textures == {"grass", "rock"}

\* Arguments of set_layer: a layer or the null reference, and an index
\* (p_index >= 0; layers[p_index] with a negative index aborts in the array).
LayerArgs == LayerIds \cup {NullLayer}

LayerIndices == 0..MaxLayers

\* Lists handed to set_layers.
LayerLists == {<< >>, <<1>>, <<2, 1>>}

\* Positions of the lifetime specification: the offsets (0,0) and (1,1).
LifePositions == {Vector3(0, 0, 0), Vector3(1024, 0, 1024)}

-----------------------------------------------------------------------------
(* The rendering server.                                                   *)

\* RIDs the storage or the server still holds somewhere: the live objects,
\* the handles in the members, and the handles the material parameters name
\* (a parameter may still name a released handle).
HeldRIDs(c) ==
    DOMAIN c.rs_objects
        \cup {c.generated[g].rid : g \in GeneratedNames}
        \cup {c.rs_params[n] : n \in DOMAIN c.rs_params \cap RIDParams}
        \cup {c.material, c.shader, NullRID}

\* The members that hold a handle of their own, numbered.
RIDOwners ==
    [material |-> 1, shader |-> 2, generated_region_map |-> 3,
     generated_height_maps |-> 4, generated_control_maps |-> 5,
     generated_albedo_textures |-> 6, generated_normal_textures |-> 7]

\* RID_Alloc::make_rid: an id that was never handed out before, so one that
\* differs from every id still held anywhere.  Ids are opaque and only ever
\* compared for equality; the id created for member `owner` is taken as the
\* smallest unheld one of owner, owner + 7, owner + 14, ..., which keeps runs
\* apart only where the handles they hold are related differently.
NewRID(c, owner) ==
    LET held == HeldRIDs(c)
        ids == {RIDOwners[owner] + 7 * k : k \in 0..Cardinality(held)}
    IN  CHOOSE r \in ids :
            /\ r \notin held
            /\ \A q \in ids : q < r => q \in held

Called(c, fn) == [c EXCEPT !.rs_calls = Append(@, fn)]

\* RenderingServer::free_rid: releases a live object; an id that is not live
\* is reported ("Attempted to free invalid ID") and nothing is released.
free_rid(c, rid) ==
    IF rid \in DOMAIN c.rs_objects
    THEN [Called(c, "free_rid") EXCEPT
            !.rs_objects = [r \in DOMAIN @ \ {rid} |-> @[r]]]
    ELSE [Called(c, "free_rid") EXCEPT
            !.errors = @ \cup {"free_rid: invalid RID"}]

\* RenderingServer::material_set_param(material, name, value).
material_set_param(c, name, value) ==
    [Called(c, "material_set_param") EXCEPT
        !.rs_params = (name :> value) @@ @]

\* texture_2d_layered_create / texture_2d_create / material_create /
\* shader_create: a new object under the RID `rid`.
rs_create(c, fn, rid, data) ==
    [Called(c, fn) EXCEPT
        !.rs_objects = (rid :> [kind |-> fn, data |-> data]) @@ @]

-----------------------------------------------------------------------------
(* struct Generated.                                                       *)

\* A clear that forgets the rid without releasing it.
Generated_clear_leak(c, g) ==
    [c EXCEPT !.generated[g] =
        [rid |-> NullRID, image |-> NullImage, dirty |-> TRUE]]

\* Generated::clear(): frees a valid rid, drops the image, leaves the
\* resource dirty.
Generated_clear(c, g) ==
    LET c1 == IF c.generated[g].rid # NullRID
              THEN free_rid(c, c.generated[g].rid)
              ELSE c
    IN  [c1 EXCEPT !.generated[g] =
            [rid |-> NullRID, image |-> NullImage, dirty |-> TRUE]]

\* A create that leaves the resource non-dirty when the list is empty.
Generated_create_layers_clean(c, g, p_layers) ==
    IF p_layers # << >>
    THEN LET rid == NewRID(c, g)
         IN  [rs_create(c, "texture_2d_layered_create", rid, p_layers) EXCEPT
                !.generated[g].rid = rid,
                !.generated[g].dirty = FALSE]
    ELSE [Generated_clear(c, g) EXCEPT !.generated[g].dirty = FALSE]

\* Generated::create(const TypedArray<Image> &p_layers).
Generated_create_layers(c, g, p_layers) ==
    IF p_layers # << >>
    THEN LET rid == NewRID(c, g)
         IN  [rs_create(c, "texture_2d_layered_create", rid, p_layers) EXCEPT
                !.generated[g].rid = rid,
                !.generated[g].dirty = FALSE]
    ELSE Generated_clear(c, g)

\* Generated::create(const Ref<Image> &p_image).
Generated_create_image(c, g, p_image) ==
    LET rid == NewRID(c, g)
    IN  [rs_create(c, "texture_2d_create", rid, p_image) EXCEPT
            !.generated[g] = [rid |-> rid, image |-> p_image, dirty |-> FALSE]]

-----------------------------------------------------------------------------
(* Region index.                                                           *)

\* floor(v / float(size) + 0.5) for an integral v.
SnapToGrid(v, size) == (2 * v + size) \div (2 * size)

\* Terrain3DStorage::_get_offset_from
_get_offset_from(size, p_global_position) ==
    <<SnapToGrid(p_global_position.x, size),
      SnapToGrid(p_global_position.z, size)>>

\* A get_region_index whose result starts at 0 instead of -1.
get_region_index_zero(offsets, size, p_global_position) ==
    LET uv_offset == _get_offset_from(size, p_global_position)
        hits == {i \in 0..(Len(offsets) - 1) : offsets[i + 1] = uv_offset}
    IN  IF hits = {}
        THEN 0
        ELSE CHOOSE i \in hits : \A j \in hits : i <= j

\* Terrain3DStorage::get_region_index: the first index whose offset equals
\* the position's offset, or -1.
get_region_index(offsets, size, p_global_position) ==
    LET uv_offset == _get_offset_from(size, p_global_position)
        hits == {i \in 0..(Len(offsets) - 1) : offsets[i + 1] = uv_offset}
    IN  IF hits = {}
        THEN NotFound
        ELSE CHOOSE i \in hits : \A j \in hits : i <= j

\* A has_region that tests the index with > 0.
has_region_positive(offsets, size, p_global_position) ==
    get_region_index(offsets, size, p_global_position) > 0

\* Terrain3DStorage::has_region
has_region(offsets, size, p_global_position) ==
    get_region_index(offsets, size, p_global_position) # NotFound

\* Terrain3DStorage::get_region_count
get_region_count(offsets) == Len(offsets)

\* A push_back that inserts at the front.
push_front(arr, value) == <<value>> \o arr

\* Array::push_back as add_region calls it.
push_back(arr, value) == Append(arr, value)

\* A floor that only guards the empty list.
is_last_region_zero(offsets) == get_region_count(offsets) = 0

\* The floor of remove_region: the last region is never removed.
is_last_region(offsets) == get_region_count(offsets) = 1

\* A remove_at that fills the gap with the last element (swap-remove).
remove_at_swap(arr, index) ==
    IF index \in 0..(Len(arr) - 1)
    THEN [k \in 1..(Len(arr) - 1) |-> IF k = index + 1 THEN arr[Len(arr)] ELSE arr[k]]
    ELSE arr

\* Array::remove_at(p_index) as remove_region calls it: the element at the
\* index is taken out and the later ones move down; an index outside the
\* array is reported by the array and nothing is removed.
remove_at(arr, index) ==
    IF index \in 0..(Len(arr) - 1)
    THEN [k \in 1..(Len(arr) - 1) |-> IF k <= index THEN arr[k] ELSE arr[k + 1]]
    ELSE arr

remove_at_errors(arr, index) ==
    IF index \in 0..(Len(arr) - 1) THEN {} ELSE {"remove_at: index out of bounds"}

-----------------------------------------------------------------------------
(* Region map encoder.                                                     *)

\* Image::create(region_map_size, region_map_size, false, FORMAT_RG8) after
\* fill(Color(0,0,0,1)): both stored channels are 0 in every cell.  `pixels`
\* holds the cells set_pixelv wrote; GetPixel reads the fill colour elsewhere.
BlankRegionMap ==
    [format |-> "RG8", size |-> region_map_size, pixels |-> EmptyPixels]

GetPixel(image, cell) ==
    IF cell \in DOMAIN image.pixels THEN image.pixels[cell] ELSE [r |-> 0, g |-> 0]

InImage(image, cell) ==
    /\ cell[1] \in 0..(image.size - 1)
    /\ cell[2] \in 0..(image.size - 1)

\* The colour _update_regions writes for region index i,
\* Color(float(i + 1) / 255.0, 1.0, 0, 1), as the two 8-bit channels of
\* FORMAT_RG8 store it (each channel is clamped to 0..255).
RegionColor(i) ==
    [r |-> IF i + 1 > ChannelMax THEN ChannelMax ELSE i + 1, g |-> ChannelMax]

\* Image::set_pixelv.  A cell inside the image is written.  For a cell
\* outside it the outcome depends on the build of the engine: a build with
\* DEBUG_ENABLED checks the index, reports it and writes nothing
\* (range_checked); a build without it writes at the linear position
\* y * width + x, which is another cell of the image when that position is
\* inside the pixel buffer.
set_pixelv(image, cell, col, range_checked) ==
    IF InImage(image, cell)
    THEN [image EXCEPT !.pixels = (cell :> col) @@ @]
    ELSE IF range_checked
    THEN image
    ELSE LET ofs == cell[2] * image.size + cell[1]
         IN  IF ofs \in 0..(image.size * image.size - 1)
             THEN [image EXCEPT !.pixels =
                     (<<ofs % image.size, ofs \div image.size>> :> col) @@ @]
             ELSE image

\* The cell of the region map a region offset is written to.
RegionMapCell(ofs) ==
    <<ofs[1] + region_map_size \div 2, ofs[2] + region_map_size \div 2>>

\* The cells one set_pixelv(cell, col) writes in `image`: the cell itself, the
\* cell its linear position falls on in a build without the range check, or
\* none.
PixelsWritten(image, cell, range_checked) ==
    DOMAIN set_pixelv([image EXCEPT !.pixels = EmptyPixels], cell, 0,
                      range_checked).pixels

\* The loop of _update_regions over region_offsets, from index i on: every
\* iteration k writes RegionColor(k) with set_pixelv, so a cell ends with the
\* colour of the last iteration that wrote it.
WriteRegions(image, offsets, i, range_checked) ==
    LET iterations == i..(Len(offsets) - 1)
        Written(k) == PixelsWritten(image, RegionMapCell(offsets[k + 1]),
                                    range_checked)
        cells == UNION {Written(k) : k \in iterations}
        Last(cell) ==
            LET writers == {k \in iterations : cell \in Written(k)}
            IN  CHOOSE k \in writers : \A j \in writers : j <= k
    IN  [image EXCEPT !.pixels =
            [cell \in DOMAIN @ \cup cells |->
                IF cell \in cells THEN RegionColor(Last(cell)) ELSE @[cell]]]

\* Some offset of the list has no cell in the region map.
OutsideRegionMap(offsets) ==
    \E k \in 1..Len(offsets) : ~InImage(BlankRegionMap, RegionMapCell(offsets[k]))

\* The builds of the engine a region pass over `offsets` can tell apart: both
\* when the pass rebuilds the region map and some offset lies outside it,
\* otherwise the choice changes nothing and one is taken.
EngineBuilds(c, offsets) ==
    IF c.generated["generated_region_map"].dirty /\ OutsideRegionMap(offsets)
    THEN BOOLEAN
    ELSE {TRUE}

\* A region pass that pushes the handles before it rebuilds the resources.
_update_regions_push_first(c, offsets, hmaps, cmaps, range_checked) ==
    LET c4 == material_set_param(c, "height_maps",
                                 c.generated["generated_height_maps"].rid)
        c5 == material_set_param(c4, "control_maps",
                                 c4.generated["generated_control_maps"].rid)
        c6 == material_set_param(c5, "region_map",
                                 c5.generated["generated_region_map"].rid)
        c7 == material_set_param(c6, "region_map_size", region_map_size)
        c1 == IF c7.generated["generated_height_maps"].dirty
              THEN Generated_create_layers(c7, "generated_height_maps", hmaps)
              ELSE c7
        c2 == IF c1.generated["generated_control_maps"].dirty
              THEN Generated_create_layers(c1, "generated_control_maps", cmaps)
              ELSE c1
    IN  IF c2.generated["generated_region_map"].dirty
        THEN Generated_create_image(c2, "generated_region_map",
                 WriteRegions(BlankRegionMap, offsets, 0, range_checked))
        ELSE c2

\* Terrain3DStorage::_update_regions
_update_regions(c, offsets, hmaps, cmaps, range_checked) ==
    LET c1 == IF c.generated["generated_height_maps"].dirty
              THEN Generated_create_layers(c, "generated_height_maps", hmaps)
              ELSE c
        c2 == IF c1.generated["generated_control_maps"].dirty
              THEN Generated_create_layers(c1, "generated_control_maps", cmaps)
              ELSE c1
        c3 == IF c2.generated["generated_region_map"].dirty
              THEN LET image == WriteRegions(BlankRegionMap, offsets, 0, range_checked)
                       c2e == IF range_checked /\ OutsideRegionMap(offsets)
                              THEN [c2 EXCEPT !.errors =
                                      @ \cup {"set_pixel: index out of bounds"}]
                              ELSE c2
                   IN  Generated_create_image(c2e, "generated_region_map", image)
              ELSE c2
        c4 == material_set_param(c3, "height_maps",
                                 c3.generated["generated_height_maps"].rid)
        c5 == material_set_param(c4, "control_maps",
                                 c4.generated["generated_control_maps"].rid)
        c6 == material_set_param(c5, "region_map",
                                 c5.generated["generated_region_map"].rid)
    IN  material_set_param(c6, "region_map_size", region_map_size)

-----------------------------------------------------------------------------
(* TerrainLayerMaterial3D: the layer objects and their signals.            *)

\* A layer as its owner hands it over: two texture references and no
\* connection to the storage.
NewLayer ==
    [albedo_texture |-> "grass", normal_texture |-> "flat", connections |-> {}]

\* Object::is_connected(signal, Callable(this, method))
is_connected(c, layer, signal, method) ==
    <<signal, method>> \in c.layer_objects[layer].connections

\* Object::connect(signal, Callable(this, method))
connect(c, layer, signal, method) ==
    [c EXCEPT !.layer_objects[layer].connections = @ \cup {<<signal, method>>}]

\* Object::disconnect(signal, Callable(this, method)): a connection that does
\* not exist is reported and nothing changes.
disconnect(c, layer, signal, method) ==
    IF is_connected(c, layer, signal, method)
    THEN [c EXCEPT !.layer_objects[layer].connections = @ \ {<<signal, method>>}]
    ELSE [c EXCEPT !.errors = @ \cup {"disconnect: nonexistent connection"}]

\* A call through a null Ref<> ends the process.
NullDeref == "null Ref dereferenced"

Crashed(c) == NullDeref \in c.errors

-----------------------------------------------------------------------------
(* Layer registry.                                                         *)

\* The loops of _update_textures over layers: one texture per layer.
albedo_texture_array(objects, p_layers) ==
    [k \in 1..Len(p_layers) |-> objects[p_layers[k]].albedo_texture]

normal_texture_array(objects, p_layers) ==
    [k \in 1..Len(p_layers) |-> objects[p_layers[k]].normal_texture]

\* Terrain3DStorage::_update_textures
_update_textures(c, p_layers) ==
    LET c1 == IF c.generated["generated_albedo_textures"].dirty
              THEN Generated_create_layers(c, "generated_albedo_textures",
                       albedo_texture_array(c.layer_objects, p_layers))
              ELSE c
    IN  IF c1.generated["generated_normal_textures"].dirty
        THEN Generated_create_layers(c1, "generated_normal_textures",
                 normal_texture_array(c1.layer_objects, p_layers))
        ELSE c1

\* Terrain3DStorage::_update_arrays: fills two local arrays from the layers
\* and emits "changed"; nothing of the storage or the server changes.
_update_arrays(c, p_layers) == c

\* The loop of _update_layers from index i on: each layer is connected once
\* to _update_textures and to _update_values; a null layer ends the process.
RECURSIVE ConnectLayers(_, _, _)
ConnectLayers(c, p_layers, i) ==
    IF i >= Len(p_layers)
    THEN c
    ELSE LET l_material == p_layers[i + 1]
             c1 == IF is_connected(c, l_material, "texture_changed", "_update_textures")
                   THEN c
                   ELSE connect(c, l_material, "texture_changed", "_update_textures")
             c2 == IF is_connected(c1, l_material, "value_changed", "_update_values")
                   THEN c1
                   ELSE connect(c1, l_material, "value_changed", "_update_values")
         IN  IF l_material = NullLayer
             THEN [c EXCEPT !.errors = @ \cup {NullDeref}]
             ELSE ConnectLayers(c2, p_layers, i + 1)

\* Terrain3DStorage::_update_layers
_update_layers(c, p_layers) ==
    LET c1 == ConnectLayers(c, p_layers, 0)
    IN  IF Crashed(c1)
        THEN c1
        ELSE _update_textures(_update_arrays(c1, p_layers), p_layers)

\* Object::emit_signal on a layer: the callable connected to the signal is
\* called when its method is one the class registered; a method that is not
\* registered is reported and nothing runs.
emit_signal(c, layer, signal, p_layers) ==
    LET methods == {m \in {"_update_textures", "_update_values", "_update_arrays"} :
                        is_connected(c, layer, signal, m)}
        method == CHOOSE m \in methods : TRUE
    IN  IF methods = {}
        THEN c
        ELSE IF method \notin BoundMethods
        THEN [c EXCEPT !.errors = @ \cup {"emit_signal: method not found"}]
        ELSE IF method = "_update_textures"
        THEN _update_textures(c, p_layers)
        ELSE c

\* A set_layer that appends whenever the material is present.
set_layer_append(p_layers, p_material, p_index) ==
    IF p_index < Len(p_layers) /\ p_material = NullLayer
    THEN remove_at(p_layers, p_index)
    ELSE push_back(p_layers, p_material)

\* The list set_layer leaves: slot p_index removed or replaced, or the
\* material appended.
set_layer_slot(p_layers, p_material, p_index) ==
    IF p_index < Len(p_layers)
    THEN IF p_material = NullLayer
         THEN remove_at(p_layers, p_index)
         ELSE [p_layers EXCEPT ![p_index + 1] = p_material]
    ELSE push_back(p_layers, p_material)

-----------------------------------------------------------------------------
(* Handlers.                                                               *)

\* The generated resources and the rendering server as the handler finds
\* them; rs_calls and errors collect what this handler does.
Ctx ==
    [generated |-> generated, material |-> material, shader |-> shader,
     rs_objects |-> rs_objects, rs_params |-> rs_params,
     layer_objects |-> layer_objects, rs_calls |-> << >>, errors |-> {}]

\* The handler ran to its end: the context becomes the state.  last_op
\* records which handler it was, the region index it worked on (the index
\* removed or appended, else -1) and the errors reported on the way.
Commit(c, op, index) ==
    /\ generated' = c.generated
    /\ material' = c.material
    /\ shader' = c.shader
    /\ rs_objects' = c.rs_objects
    /\ rs_params' = c.rs_params
    /\ layer_objects' = c.layer_objects
    /\ rs_calls' = c.rs_calls
    /\ last_op' = [op |-> op,
                    result |-> IF Crashed(c) THEN "crashed" ELSE "done",
                    index |-> index, errors |-> c.errors]

\* The handler returns before it changed anything (ERR_FAIL_COND or an early
\* return).
Return(op, errors) ==
    /\ last_op' = [op |-> op,
                    result |-> IF errors = {} THEN "ignored" ELSE "failed",
                    index |-> NotFound, errors |-> errors]
    /\ rs_calls' = << >>
    /\ UNCHANGED <<region_size, region_offsets, height_maps, control_maps,
                   layers, layer_objects, generated, material, shader,
                   _initialized, rs_objects, rs_params>>

\* Terrain3DStorage::add_region, explored while each of the three lists is
\* shorter than max_regions.
add_region_within(p_global_position, max_regions) ==
    IF has_region(region_offsets, region_size, p_global_position)
    THEN Return("add_region", {"ERR_FAIL_COND: has_region"})
    ELSE /\ Len(region_offsets) < max_regions
         /\ Len(height_maps) < max_regions
         /\ Len(control_maps) < max_regions
         /\ LET hmap_img == NewImage(region_size, "RH")
                cmap_img == NewImage(region_size, "RGBA8")
                uv_offset == _get_offset_from(region_size, p_global_position)
                hmaps == push_back(height_maps, hmap_img)
                cmaps == push_back(control_maps, cmap_img)
                offsets == push_back(region_offsets, uv_offset)
                c1 == Generated_clear(Ctx, "generated_height_maps")
                c2 == Generated_clear(c1, "generated_control_maps")
                c3 == Generated_clear(c2, "generated_region_map")
            IN  /\ height_maps' = hmaps
                /\ control_maps' = cmaps
                /\ region_offsets' = offsets
                /\ \E range_checked \in EngineBuilds(c3, offsets) :
                       Commit(_update_regions(c3, offsets, hmaps, cmaps, range_checked),
                              "add_region", Len(region_offsets))
                /\ UNCHANGED <<region_size, layers, _initialized>>

\* Terrain3DStorage::add_region
add_region(p_global_position) == add_region_within(p_global_position, MaxRegions)

\* Terrain3DStorage::remove_region
remove_region(p_global_position) ==
    IF is_last_region(region_offsets)
    THEN Return("remove_region", {})
    ELSE LET index == get_region_index(region_offsets, region_size, p_global_position)
         IN  IF index = NotFound
             THEN Return("remove_region", {"ERR_FAIL_COND: Map does not exist."})
             ELSE LET offsets == remove_at(region_offsets, index)
                      hmaps == remove_at(height_maps, index)
                      cmaps == remove_at(control_maps, index)
                      c0 == [Ctx EXCEPT !.errors =
                                remove_at_errors(height_maps, index)
                                    \cup remove_at_errors(control_maps, index)]
                      c1 == Generated_clear(c0, "generated_height_maps")
                      c2 == Generated_clear(c1, "generated_control_maps")
                      c3 == Generated_clear(c2, "generated_region_map")
                  IN  /\ region_offsets' = offsets
                      /\ height_maps' = hmaps
                      /\ control_maps' = cmaps
                      /\ \E range_checked \in EngineBuilds(c3, offsets) :
                             Commit(_update_regions(c3, offsets, hmaps, cmaps,
                                                    range_checked),
                                    "remove_region", index)
                      /\ UNCHANGED <<region_size, layers, _initialized>>

\* Terrain3DStorage::set_region_offsets
set_region_offsets(p_array) ==
    /\ region_offsets' = p_array
    /\ last_op' = [op |-> "set_region_offsets", result |-> "done",
                    index |-> NotFound, errors |-> {}]
    /\ rs_calls' = << >>
    /\ UNCHANGED <<region_size, height_maps, control_maps, layers,
                   layer_objects, generated, material, shader, _initialized,
                   rs_objects, rs_params>>

\* A force_update_maps that clears both map caches whatever the type.
force_update_maps_all(c, p_map_type, offsets, hmaps, cmaps, range_checked) ==
    _update_regions(Generated_clear(Generated_clear(c, "generated_height_maps"),
                                    "generated_control_maps"),
                    offsets, hmaps, cmaps, range_checked)

\* The body of Terrain3DStorage::force_update_maps on a context: the clears
\* the map type selects, then the region pass.  The region map is not dirty
\* on this path unless it already was (clear() is its only writer of dirty).
force_update_maps_body(c, p_map_type, offsets, hmaps, cmaps, range_checked) ==
    LET c1 == CASE p_map_type = "TYPE_HEIGHT" ->
                     Generated_clear(c, "generated_height_maps")
                [] p_map_type = "TYPE_CONTROL" ->
                     Generated_clear(c, "generated_control_maps")
                [] p_map_type = "TYPE_COLOR" -> c
                [] OTHER ->
                     Generated_clear(Generated_clear(c, "generated_height_maps"),
                                     "generated_control_maps")
    IN  _update_regions(c1, offsets, hmaps, cmaps, range_checked)

\* Terrain3DStorage::force_update_maps
force_update_maps(p_map_type) ==
    /\ \E range_checked \in EngineBuilds(Ctx, region_offsets) :
           Commit(force_update_maps_body(Ctx, p_map_type, region_offsets,
                                         height_maps, control_maps, range_checked),
                  "force_update_maps", NotFound)
    /\ UNCHANGED <<region_size, region_offsets, height_maps, control_maps,
                   layers, _initialized>>

\* Terrain3DStorage::set_height_maps
set_height_maps(p_maps) ==
    /\ height_maps' = p_maps
    /\ \E range_checked \in EngineBuilds(Ctx, region_offsets) :
           Commit(force_update_maps_body(Ctx, "TYPE_HEIGHT", region_offsets,
                                         p_maps, control_maps, range_checked),
                  "set_height_maps", NotFound)
    /\ UNCHANGED <<region_size, region_offsets, control_maps, layers, _initialized>>

\* Terrain3DStorage::set_control_maps
set_control_maps(p_maps) ==
    /\ control_maps' = p_maps
    /\ \E range_checked \in EngineBuilds(Ctx, region_offsets) :
           Commit(force_update_maps_body(Ctx, "TYPE_CONTROL", region_offsets,
                                         height_maps, p_maps, range_checked),
                  "set_control_maps", NotFound)
    /\ UNCHANGED <<region_size, region_offsets, height_maps, layers, _initialized>>

\* The object exists and the process runs.
Alive == last_op.result # "crashed" /\ last_op.op # "~Terrain3DStorage"

\* Terrain3DStorage::set_layer
set_layer(p_material, p_index) ==
    /\ Alive
    /\ p_index < Len(layers) \/ Len(layers) < MaxLayers
    /\ LET removing == p_index < Len(layers) /\ p_material = NullLayer
           material_to_remove == layers[p_index + 1]
           c0 == IF ~removing
                 THEN Ctx
                 ELSE IF material_to_remove = NullLayer
                 THEN [Ctx EXCEPT !.errors = @ \cup {NullDeref}]
                 ELSE disconnect(
                          disconnect(Ctx, material_to_remove,
                                     "texture_changed", "_update_textures"),
                          material_to_remove, "value_changed", "_update_arrays")
           new_layers == set_layer_slot(layers, p_material, p_index)
           c1 == Generated_clear(c0, "generated_albedo_textures")
           c2 == Generated_clear(c1, "generated_normal_textures")
       IN  IF Crashed(c0)
           THEN /\ layers' = layers
                /\ Commit(c0, "set_layer", p_index)
           ELSE /\ layers' = new_layers
                /\ Commit(_update_layers(c2, new_layers), "set_layer", p_index)
    /\ UNCHANGED <<region_size, region_offsets, height_maps, control_maps,
                   _initialized>>

\* Terrain3DStorage::set_layers
set_layers(p_layers) ==
    /\ Alive
    /\ layers' = p_layers
    /\ LET c1 == Generated_clear(Ctx, "generated_albedo_textures")
           c2 == Generated_clear(c1, "generated_normal_textures")
       IN  Commit(_update_layers(c2, p_layers), "set_layers", NotFound)
    /\ UNCHANGED <<region_size, region_offsets, height_maps, control_maps,
                   _initialized>>

\* TerrainLayerMaterial3D::set_albedo_texture: the layer takes the texture
\* and signals "texture_changed".
set_albedo_texture(layer, p_texture) ==
    /\ Alive
    /\ LET c0 == [Ctx EXCEPT !.layer_objects[layer].albedo_texture = p_texture]
       IN  Commit(emit_signal(c0, layer, "texture_changed", layers),
                  "set_albedo_texture", NotFound)
    /\ UNCHANGED <<region_size, region_offsets, height_maps, control_maps,
                   layers, _initialized>>

\* Terrain3DStorage::_clear
_clear(c) ==
    LET c1 == free_rid(c, c.material)
        c2 == free_rid(c1, c.shader)
        c3 == Generated_clear(c2, "generated_height_maps")
        c4 == Generated_clear(c3, "generated_control_maps")
        c5 == Generated_clear(c4, "generated_albedo_textures")
        c6 == Generated_clear(c5, "generated_normal_textures")
    IN  Generated_clear(c6, "generated_region_map")

\* Terrain3DStorage::~Terrain3DStorage
Terrain3DStorage_destructor ==
    /\ Alive
    /\ IF _initialized
       THEN Commit(_clear(Ctx), "~Terrain3DStorage", NotFound)
       ELSE Commit(Ctx, "~Terrain3DStorage", NotFound)
    /\ UNCHANGED <<region_size, region_offsets, height_maps, control_maps,
                   layers, _initialized>>

-----------------------------------------------------------------------------
(* Construction.                                                           *)

\* Terrain3DStorage::_update_material on a fresh object, then
\* set_region_size(region_size) as its last statement: the material and the
\* shader are created and the two size parameters are pushed.
_update_material(c, size) ==
    LET m == NewRID(c, "material")
        c1 == [rs_create(c, "material_create", m, << >>) EXCEPT !.material = m]
        s == NewRID(c1, "shader")
        c2 == [rs_create(c1, "shader_create", s, << >>) EXCEPT !.shader = s]
        c3 == Called(Called(c2, "shader_set_code"), "material_set_shader")
        c4 == material_set_param(c3, "region_size", size)
    IN  material_set_param(c4, "region_pixel_size", <<1, size>>)

\* The members as the class declaration initialises them.
NewGenerated == [rid |-> NullRID, image |-> NullImage, dirty |-> FALSE]

NewObject ==
    [generated |-> [g \in GeneratedNames |-> NewGenerated],
     material |-> NullRID, shader |-> NullRID,
     rs_objects |-> [r \in {} |-> << >>], rs_params |-> [n \in {} |-> 0],
     layer_objects |-> [l \in LayerIds |-> NewLayer],
     rs_calls |-> << >>, errors |-> {}]

\* Terrain3DStorage::Terrain3DStorage
Init ==
    LET c == _update_material(NewObject, SIZE_1024)
    IN  /\ region_size = SIZE_1024
        /\ region_offsets = << >>
        /\ height_maps = << >>
        /\ control_maps = << >>
        /\ layers = << >>
        /\ layer_objects = c.layer_objects
        /\ generated = c.generated
        /\ material = c.material
        /\ shader = c.shader
        /\ _initialized = TRUE
        /\ rs_objects = c.rs_objects
        /\ rs_params = c.rs_params
        /\ rs_calls = c.rs_calls
        /\ last_op = [op |-> "Terrain3DStorage", result |-> "done",
                       index |-> NotFound, errors |-> c.errors]

Next ==
    \/ \E p \in Positions : add_region(p)
    \/ \E p \in Positions : remove_region(p)
    \/ \E p_array \in OffsetLists : set_region_offsets(p_array)
    \/ \E p_map_type \in MapType : force_update_maps(p_map_type)
    \/ \E p_maps \in HeightLists : set_height_maps(p_maps)
    \/ \E p_maps \in ControlLists : set_control_maps(p_maps)

Spec == Init /\ [][Next]_vars

\* The whole life of a storage: regions, maps, layers, and the teardown.
LifeNext ==
    \/ \E p \in LifePositions : Alive /\ add_region(p)
    \/ \E p \in LifePositions : Alive /\ remove_region(p)
    \/ \E p_maps \in HeightLists : Alive /\ set_height_maps(p_maps)
    \/ \E p_material \in LayerArgs, p_index \in LayerIndices :
           set_layer(p_material, p_index)
    \/ \E p_layers \in LayerLists : set_layers(p_layers)
    \/ \E layer \in LayerIds, p_texture \in Textures :
           set_albedo_texture(layer, p_texture)
    \/ Terrain3DStorage_destructor

LifeSpec == Init /\ [][LifeNext]_vars

\* A terrain loaded with one region less than the region map's channel can
\* tell apart, and regions added to it.
CapNext ==
    \/ region_offsets = << >> /\ set_region_offsets(GridOffsets(ChannelMax - 1))
    \/ height_maps = << >> /\ set_height_maps(GridHeightMaps(ChannelMax - 1))
    \/ control_maps = << >> /\ set_control_maps(GridControlMaps(ChannelMax - 1))
    \/ \E p \in CapPositions : add_region_within(p, MaxCapRegions)

CapSpec == Init /\ [][CapNext]_vars

\* The update passes over the four layered-array caches: the bulk setters of
\* the maps and of the layers, and the forced update.
CacheNext ==
    \/ \E p_map_type \in MapType : Alive /\ force_update_maps(p_map_type)
    \/ \E p_maps \in HeightLists : Alive /\ set_height_maps(p_maps)
    \/ \E p_maps \in ControlLists : Alive /\ set_control_maps(p_maps)
    \/ \E p_material \in LayerArgs, p_index \in LayerIndices :
           set_layer(p_material, p_index)
    \/ \E p_layers \in LayerLists : set_layers(p_layers)

CacheSpec == Init /\ [][CacheNext]_vars

-----------------------------------------------------------------------------
(* Properties.                                                             *)

\* The grid offset of a world position, and whether a region sits there.
OffsetAt(p) == _get_offset_from(region_size, p)

Occupied(p) == \E k \in 1..Len(region_offsets) : region_offsets[k] = OffsetAt(p)

\* The 0-based index of the first region at the position's offset.
FirstIndexAt(p) ==
    CHOOSE i \in 0..(Len(region_offsets) - 1) :
        /\ region_offsets[i + 1] = OffsetAt(p)
        /\ \A j \in 0..(i - 1) : region_offsets[j + 1] # OffsetAt(p)

\* `new` is `old` without its entry at the 0-based index i.
LosesEntry(old, new, i) ==
    /\ i \in 0..(Len(old) - 1)
    /\ new = SubSeq(old, 1, i) \o SubSeq(old, i + 2, Len(old))

\* A step left the region lists and the five generated resources alone.
StoreUnchanged ==
    /\ region_offsets' = region_offsets
    /\ height_maps' = height_maps
    /\ control_maps' = control_maps
    /\ generated' = generated

\* A step made no call to the rendering server.
NoBackendCall ==
    /\ rs_calls' = << >>
    /\ rs_objects' = rs_objects
    /\ rs_params' = rs_params

\* C1: add_region at a position whose offset is not occupied appends exactly
\* one region: count() grows by one, has_region(p) becomes true,
\* get_region_index(p) is the old count, and get_region_index of every
\* position that had a region is unchanged.
C1_AddAppends ==
    [][\A p \in Positions :
          (~Occupied(p) /\ add_region(p)) =>
              /\ get_region_count(region_offsets') = get_region_count(region_offsets) + 1
              /\ has_region(region_offsets', region_size', p)
              /\ get_region_index(region_offsets', region_size', p)
                     = get_region_count(region_offsets)
              /\ get_region_index(region_offsets', region_size', p)
                     = get_region_count(region_offsets') - 1
              /\ \A q \in Positions :
                     Occupied(q) =>
                         get_region_index(region_offsets', region_size', q)
                             = get_region_index(region_offsets, region_size, q)
      ]_vars

\* add_region appended a third region behind two existing ones.
C1_Witness ==
    /\ last_op.op = "add_region"
    /\ last_op.result = "done"
    /\ last_op.index = 2
    /\ Len(region_offsets) = 3

\* C2: a successful remove_region of the region at index i among n >= 2
\* regions takes entry i out of the offset list, the height-map list and the
\* control-map list, later entries moving down by one, and count() is n - 1.
C2_RemoveCompactsAllLists ==
    [][\A p \in Positions :
          (Len(region_offsets) >= 2 /\ Occupied(p) /\ remove_region(p)) =>
              /\ LosesEntry(region_offsets, region_offsets', FirstIndexAt(p))
              /\ LosesEntry(height_maps, height_maps', FirstIndexAt(p))
              /\ LosesEntry(control_maps, control_maps', FirstIndexAt(p))
              /\ get_region_count(region_offsets') = Len(region_offsets) - 1
      ]_vars

\* C3 as stated: removing index i < n - 1 leaves n - 1 regions with the
\* region formerly at n - 1 at index i, the other regions in their order.
C3_LastFillsGap ==
    [][\A p \in Positions :
          (/\ Len(region_offsets) >= 2
           /\ Occupied(p)
           /\ FirstIndexAt(p) < Len(region_offsets) - 1
           /\ remove_region(p)) =>
              LET n == Len(region_offsets)
                  i == FirstIndexAt(p)
              IN  /\ Len(region_offsets') = n - 1
                  /\ region_offsets'[i + 1] = region_offsets[n]
                  /\ \A j \in 0..(n - 2) :
                         j # i => region_offsets'[j + 1] = region_offsets[j + 1]
      ]_vars

\* C3 (amended): removing index i < n - 1 leaves n - 1 regions; the regions
\* before i keep their index and every region formerly at j > i is at j - 1,
\* so the region formerly at i + 1 is at i and the order is preserved.
C3_LaterShiftDown ==
    [][\A p \in Positions :
          (/\ Len(region_offsets) >= 2
           /\ Occupied(p)
           /\ FirstIndexAt(p) < Len(region_offsets) - 1
           /\ remove_region(p)) =>
              LET n == Len(region_offsets)
                  i == FirstIndexAt(p)
              IN  /\ Len(region_offsets') = n - 1
                  /\ \A j \in 0..(n - 2) :
                         region_offsets'[j + 1] =
                             IF j < i THEN region_offsets[j + 1]
                                      ELSE region_offsets[j + 2]
      ]_vars

\* remove_region took the first of three different regions out.
C3_Witness ==
    /\ last_op.op = "remove_region"
    /\ last_op.result = "done"
    /\ last_op.index = 0
    /\ Len(region_offsets) = 2
    /\ region_offsets[1] # region_offsets[2]

\* C4: the entries of the region offset list are pairwise distinct.
C4_OffsetsDistinct ==
    \A j, k \in 1..Len(region_offsets) :
        j # k => region_offsets[j] # region_offsets[k]

\* C5: add_region at an occupied offset reports an error and changes
\* nothing: the three lists, the five generated resources, and no call
\* reaches the rendering server.
C5_DuplicateAddRejected ==
    [][\A p \in Positions :
          (Occupied(p) /\ add_region(p)) =>
              /\ last_op'.op = "add_region"
              /\ last_op'.errors # {}
              /\ StoreUnchanged
              /\ NoBackendCall
      ]_vars

\* add_region was refused while regions exist.
C5_Witness ==
    /\ last_op.op = "add_region"
    /\ last_op.result = "failed"
    /\ Len(region_offsets) >= 1

\* C6 as stated: remove_region where no region exists reports an error and
\* changes nothing, whatever the region count.
C6_MissingRemoveReported ==
    [][\A p \in Positions :
          (~Occupied(p) /\ remove_region(p)) =>
              /\ last_op'.errors # {}
              /\ StoreUnchanged
              /\ NoBackendCall
      ]_vars

\* C6 (amended): remove_region where no region exists changes nothing,
\* whatever the region count; it reports an error unless count() is 1, where
\* it returns silently.
C6_MissingRemoveNoMutation ==
    [][\A p \in Positions :
          (~Occupied(p) /\ remove_region(p)) =>
              /\ (last_op'.errors # {}) <=> (Len(region_offsets) # 1)
              /\ StoreUnchanged
              /\ NoBackendCall
      ]_vars

\* remove_region reported a missing region while two or more regions exist.
C6_Witness ==
    /\ last_op.op = "remove_region"
    /\ last_op.result = "failed"
    /\ Len(region_offsets) >= 2

\* C7: remove_region with any position when count() is 1 changes neither
\* the three lists nor any generated resource and reports no error.
C7_FloorIsSilentNoOp ==
    [][\A p \in Positions :
          (Len(region_offsets) = 1 /\ remove_region(p)) =>
              /\ StoreUnchanged
              /\ last_op'.errors = {}
      ]_vars

\* remove_region was ignored with one region left.
C7_Witness ==
    /\ last_op.op = "remove_region"
    /\ last_op.result = "ignored"
    /\ Len(region_offsets) = 1

\* C8: once the object is constructed, the region list holds at least one
\* region.
C8_AtLeastOneRegion == _initialized => get_region_count(region_offsets) >= 1

\* What each generated resource is built from.
Source(g) ==
    CASE g = "generated_region_map" -> region_offsets
      [] g = "generated_height_maps" -> height_maps
      [] g = "generated_control_maps" -> control_maps
      [] g = "generated_albedo_textures" -> albedo_texture_array(layer_objects, layers)
      [] g = "generated_normal_textures" -> normal_texture_array(layer_objects, layers)

\* The live handle of g was created from the current source of g.
BuiltFromSource(g) ==
    /\ generated[g].rid \in DOMAIN rs_objects
    /\ IF g = "generated_region_map"
       THEN /\ \E range_checked \in BOOLEAN :
                   generated[g].image =
                       WriteRegions(BlankRegionMap, region_offsets, 0, range_checked)
            /\ rs_objects[generated[g].rid].data = generated[g].image
       ELSE rs_objects[generated[g].rid].data = Source(g)

\* C9: a generated resource that is not dirty, and whose source is not
\* empty, has a handle built from the current source.
C9_CleanMeansCurrent ==
    \A g \in GeneratedNames :
        (~generated[g].dirty /\ Source(g) # << >>) => BuiltFromSource(g)

\* The cells of the region map.
RegionMapCells == (0..(region_map_size - 1)) \X (0..(region_map_size - 1))

\* C10: after a successful add_region or remove_region the region map
\* holds, for the region with index i and offset o, the value i + 1 in the
\* red channel of cell o + (8, 8), and 0 in every cell of no region.
C10_RegionMapEncodesIndex ==
    (last_op.op \in {"add_region", "remove_region"} /\ last_op.result = "done") =>
        LET image == generated["generated_region_map"].image
        IN  /\ \A k \in 1..Len(region_offsets) :
                   /\ RegionMapCell(region_offsets[k]) \in RegionMapCells
                   /\ GetPixel(image, RegionMapCell(region_offsets[k])).r = k
            /\ \A cell \in RegionMapCells :
                   (\A k \in 1..Len(region_offsets) :
                        RegionMapCell(region_offsets[k]) # cell)
                       => GetPixel(image, cell).r = 0

\* The handle and the dirty flag of g are the same after the step as before.
CacheUntouched(g) ==
    /\ generated'[g].rid = generated[g].rid
    /\ generated'[g].dirty = generated[g].dirty

\* The step released the handle g held, if it held one.
CacheInvalidated(g) ==
    generated[g].rid # NullRID =>
        /\ generated[g].rid \notin DOMAIN rs_objects'
        /\ generated'[g].rid # generated[g].rid

\* C11: force_update_maps(TYPE_HEIGHT) releases the height cache's handle
\* and leaves the handle and the dirty flag of the control cache and of the
\* region map as they were; force_update_maps(TYPE_CONTROL) does the same
\* with the roles of the height and the control cache exchanged.
C11_ForceUpdateIsolated ==
    [][/\ force_update_maps("TYPE_HEIGHT") =>
              /\ CacheInvalidated("generated_height_maps")
              /\ CacheUntouched("generated_control_maps")
              /\ CacheUntouched("generated_region_map")
       /\ force_update_maps("TYPE_CONTROL") =>
              /\ CacheInvalidated("generated_control_maps")
              /\ CacheUntouched("generated_height_maps")
              /\ CacheUntouched("generated_region_map")
      ]_vars

\* force_update_maps rebuilt exactly one cache while the height cache, the
\* control cache and the region map all hold a handle.
C11_Witness ==
    /\ last_op.op = "force_update_maps"
    /\ \A g \in {"generated_height_maps", "generated_control_maps",
                  "generated_region_map"} : generated[g].rid \in DOMAIN rs_objects
    /\ Cardinality({k \in 1..Len(rs_calls) : rs_calls[k] = "free_rid"}) = 1
    /\ Cardinality({k \in 1..Len(rs_calls) :
                        rs_calls[k] = "texture_2d_layered_create"}) = 1

\* The handlers that end with the region update pass, and those that end
\* with the layer update pass.
RegionPassOps ==
    {"add_region", "remove_region", "force_update_maps", "set_height_maps",
     "set_control_maps"}

LayerPassOps == {"set_layer", "set_layers"}

\* C12: after an update pass every cache the pass covers is non-dirty,
\* whatever its source holds, so that a second pass right after it rebuilds
\* nothing: the region pass covers the height cache, the control cache and
\* the region map, the layer pass the albedo and the normal cache.
C12_PassLeavesClean ==
    /\ (last_op.op \in RegionPassOps /\ last_op.result = "done") =>
           /\ ~generated["generated_height_maps"].dirty
           /\ ~generated["generated_control_maps"].dirty
           /\ ~generated["generated_region_map"].dirty
    /\ (last_op.op \in LayerPassOps /\ last_op.result = "done") =>
           /\ ~generated["generated_albedo_textures"].dirty
           /\ ~generated["generated_normal_textures"].dirty

\* C13: the height-map list, the control-map list and the region offset
\* list have the same length between operations.
C13_ListsInLockstep ==
    /\ Len(height_maps) = Len(region_offsets)
    /\ Len(control_maps) = Len(region_offsets)

\* C14: add_region with 255 regions present is reported and changes
\* nothing, so that count() never exceeds 255 and every region index + 1
\* written to the region map is at most 255.
C14_CapacityEnforced ==
    [][\A p \in CapPositions :
          (/\ get_region_count(region_offsets) = ChannelMax
           /\ add_region_within(p, MaxCapRegions)) =>
              /\ last_op'.errors # {}
              /\ StoreUnchanged
              /\ get_region_count(region_offsets') <= ChannelMax
      ]_vars


\* C15: set_layer(m, i) on a list of n layers: with m present and i < n it
\* replaces slot i and leaves the length and every other slot as they were;
\* with m present and i >= n it appends m as the last entry; with m absent
\* and i < n it removes slot i, the later layers move down by one and the
\* order of the remaining layers is kept.
C15_SetLayerSemantics ==
    [][\A m \in LayerArgs, i \in LayerIndices :
          set_layer(m, i) =>
              LET n == Len(layers)
              IN  /\ (m # NullLayer /\ i < n) =>
                        /\ Len(layers') = n
                        /\ layers'[i + 1] = m
                        /\ \A k \in 1..n : k # i + 1 => layers'[k] = layers[k]
                  /\ (m # NullLayer /\ i >= n) =>
                        /\ Len(layers') = n + 1
                        /\ layers'[n + 1] = m
                        /\ \A k \in 1..n : layers'[k] = layers[k]
                  /\ (m = NullLayer /\ i < n) =>
                        /\ Len(layers') = n - 1
                        /\ \A k \in 1..(n - 1) :
                              layers'[k] = IF k <= i THEN layers[k]
                                                     ELSE layers[k + 1]
      ]_vars

\* A set_layer removed slot 0 of a list of two layers (the removal is the
\* only path that disconnects) and the later layer moved down to slot 0.
C15_Witness ==
    /\ last_op.op = "set_layer"
    /\ last_op.result = "done"
    /\ last_op.index = 0
    /\ "disconnect: nonexistent connection" \in last_op.errors
    /\ Len(layers) = 1
    /\ \E l \in LayerIds \ {layers[1]} :
           <<"value_changed", "_update_values">> \in layer_objects[l].connections


\* The caches held as layered texture arrays.
LayeredCaches ==
    {"generated_height_maps", "generated_control_maps",
     "generated_albedo_textures", "generated_normal_textures"}

\* The handlers that clear cache g and then build it in their update pass.
RebuildOps(g) ==
    CASE g = "generated_height_maps" -> {"set_height_maps"}
      [] g = "generated_control_maps" -> {"set_control_maps"}
      [] g = "generated_albedo_textures" -> LayerPassOps
      [] g = "generated_normal_textures" -> LayerPassOps

\* The last handler built cache g from an empty source list.
BuiltFromEmpty(g) ==
    /\ last_op.op \in RebuildOps(g)
    /\ last_op.result = "done"
    /\ Source(g) = << >>

\* The cache g as an explicit clear() leaves it in the current state.
Cleared(g) == Generated_clear(Ctx, g).generated[g]

Holders(r) ==
    {g \in GeneratedNames : generated[g].rid = r}
        \cup (IF material = r THEN {"material"} ELSE {})
        \cup (IF shader = r THEN {"shader"} ELSE {})

\* C17: every handle the storage acquired is released exactly once over a
\* lifetime that ends in the destructor: no handler frees a handle that is
\* not live (none is freed twice), every live handle is held by exactly one
\* member (none is overwritten by a later create without being freed, none
\* is shared), and after the destructor no handle is live.
C17_HandlesReleasedOnce ==
    /\ "free_rid: invalid RID" \notin last_op.errors
    /\ \A r \in DOMAIN rs_objects : Cardinality(Holders(r)) = 1
    /\ last_op.op = "~Terrain3DStorage" => DOMAIN rs_objects = {}

\* The destructor ran on a storage that held all seven handles and
\* released each of them.
C17_Witness ==
    /\ last_op.op = "~Terrain3DStorage"
    /\ DOMAIN rs_objects = {}
    /\ Cardinality({k \in 1..Len(rs_calls) : rs_calls[k] = "free_rid"}) = 7


\* The backend calls of the last handler that create a texture, and those
\* that push a material parameter, as positions in rs_calls.
CreateCalls ==
    {k \in 1..Len(rs_calls) :
        rs_calls[k] \in {"texture_2d_layered_create", "texture_2d_create"}}

PushCalls == {k \in 1..Len(rs_calls) : rs_calls[k] = "material_set_param"}

\* The material parameter `name` names the handle cache g holds now, which
\* is a live handle or none.
ParamIsCurrent(name, g) ==
    /\ name \in DOMAIN rs_params
    /\ rs_params[name] = generated[g].rid
    /\ rs_params[name] \in DOMAIN rs_objects \cup {NullRID}

\* C18: after every handler that ran the region update pass the material
\* parameters height_maps, control_maps and region_map name the current
\* handles of their caches, none of them a released handle, and in the
\* pass every rebuild came before the first push.
C18_ParamsFollowHandles ==
    (last_op.op \in RegionPassOps /\ last_op.result = "done") =>
        /\ ParamIsCurrent("height_maps", "generated_height_maps")
        /\ ParamIsCurrent("control_maps", "generated_control_maps")
        /\ ParamIsCurrent("region_map", "generated_region_map")
        /\ \A k \in CreateCalls, p \in PushCalls : k < p

\* remove_region rebuilt the three caches and the parameters name the three
\* new, live handles.
C18_Witness ==
    /\ last_op.op = "remove_region"
    /\ last_op.result = "done"
    /\ Cardinality(CreateCalls) = 3
    /\ \A n \in {"height_maps", "control_maps", "region_map"} :
           n \in DOMAIN rs_params /\ rs_params[n] \in DOMAIN rs_objects


\* C19: after a handler that ran the layer update pass (set_layer,
\* set_layers) the material parameters of the albedo and of the normal
\* texture array name the current handles of those caches, as the
\* parameters of the three map caches do, so that all five handles known to
\* the backend are the current ones.
C19_TextureParamsFollowHandles ==
    (last_op.op \in LayerPassOps /\ last_op.result = "done") =>
        \A g \in DOMAIN TextureParams :
            /\ TextureParams[g] \in DOMAIN rs_params
            /\ rs_params[TextureParams[g]] = generated[g].rid


\* The texture-array cache g holds a live handle and is not dirty.
CacheClean(g) ==
    /\ ~generated[g].dirty
    /\ generated[g].rid \in DOMAIN rs_objects

\* The step released the handle of g and built a new one from the textures
\* the layers hold after the step.
CacheRebuilt(g) ==
    /\ generated[g].rid \notin DOMAIN rs_objects'
    /\ generated'[g].rid # generated[g].rid
    /\ generated'[g].rid \in DOMAIN rs_objects'
    /\ ~generated'[g].dirty
    /\ rs_objects'[generated'[g].rid].data =
           (IF g = "generated_albedo_textures"
            THEN albedo_texture_array(layer_objects', layers')
            ELSE normal_texture_array(layer_objects', layers'))

\* C20: when a layer of the layer list signals a texture change while the
\* albedo and the normal cache are clean, both caches become dirty and the
\* texture pass the signal starts rebuilds both with a new handle.
C20_TextureChangeRebuilds ==
    [][\A layer \in LayerIds, p_texture \in Textures :
          (/\ \E k \in 1..Len(layers) : layers[k] = layer
           /\ \A g \in DOMAIN TextureParams : CacheClean(g)
           /\ set_albedo_texture(layer, p_texture)) =>
              \A g \in DOMAIN TextureParams : CacheRebuilt(g)
      ]_vars


\* The connections _update_layers makes from a layer to the storage.
StorageConnections ==
    {<<"texture_changed", "_update_textures">>,
     <<"value_changed", "_update_values">>}

\* C21: after set_layer(null, i) removed the layer at a valid index i, the
\* removed layer, which is no longer in the list, has no connection left
\* from its texture_changed or value_changed signal to a handler of the
\* storage that _update_layers connected.
C21_RemovedLayerDetached ==
    [][\A i \in LayerIndices :
          (/\ i < Len(layers)
           /\ set_layer(NullLayer, i)
           /\ last_op'.result = "done"
           /\ \A k \in 1..Len(layers') : layers'[k] # layers[i + 1]) =>
              layer_objects'[layers[i + 1]].connections
                  \cap StorageConnections = {}
      ]_vars


\* The caches of the region update pass.
RegionCaches ==
    {"generated_height_maps", "generated_control_maps", "generated_region_map"}

\* C22: a region mutation (an add_region or remove_region that changes the
\* region lists) only marks the caches of the region pass dirty: the
\* backend receives no request to create a resource during the mutation,
\* so that several mutations in a row leave one rebuild per dirty cache to
\* the update pass that follows them.
C22_MutationsOnlyMarkDirty ==
    [][\A p \in Positions :
          (/\ add_region(p) \/ remove_region(p)
           /\ last_op'.result = "done") =>
              /\ \A k \in 1..Len(rs_calls') :
                    rs_calls'[k] \notin {"texture_2d_layered_create",
                                         "texture_2d_create"}
              /\ \A g \in RegionCaches : generated'[g].dirty
      ]_vars


\* C23: the layer list, which starts without a null entry, holds no null
\* entry after any sequence of set_layer calls, whatever their material and
\* index, and no layer update pass run by such a call went through a null
\* layer.
C23_NoNullLayer ==
    /\ \A k \in 1..Len(layers) : layers[k] # NullLayer
    /\ NullDeref \notin last_op.errors

====
